---- MODULE Spec2Model ----
(***************************************************************************)
(* The four hook scripts of the devkit as one state machine.  One          *)
(* behaviour is one invocation of one hook: the host starts the process    *)
(* with a record on standard input, the script decodes it, evaluates its   *)
(* policy or runs its external tool, writes to its streams and exits.      *)
(*                                                                         *)
(* Text is a sequence of one-character strings, so that lower-casing,      *)
(* substring containment, regular-expression search and os.path.splitext   *)
(* are computed character by character as Python computes them.            *)
(***************************************************************************)
EXTENDS Integers, Sequences, FiniteSets, TLC

(***************************************************************************)
(* Bounds of the model.                                                    *)
(***************************************************************************)
\* a command or path text is the concatenation of at most MaxParts fragments
MaxParts == 2

(***************************************************************************)
(* Text helpers.                                                           *)
(***************************************************************************)
\* str.lower() on the letters the model's texts use
LowerChar(c) ==
  CASE c = "E" -> "e" [] c = "N" -> "n" [] c = "V" -> "v" [] c = "S" -> "s"
    [] c = "H" -> "h" [] c = "P" -> "p" [] c = "R" -> "r" [] c = "I" -> "i"
    [] c = "A" -> "a" [] c = "T" -> "t" [] c = "J" -> "j" [] c = "X" -> "x"
    [] c = "M" -> "m" [] c = "F" -> "f" [] c = "U" -> "u" [] c = "D" -> "d"
    [] c = "O" -> "o"
    [] OTHER -> c

Lower(s) == [i \in 1..Len(s) |-> LowerChar(s[i])]

\* Python's `sub in s` for str
Contains(s, sub) ==
  \E i \in 0..(Len(s) - Len(sub)) :
     \A k \in 1..Len(sub) : s[i + k] = sub[k]

\* s.rfind(c), 0-based, -1 when absent
RFind(s, c) ==
  LET hits == {i \in 1..Len(s) : s[i] = c}
  IN  IF hits = {} THEN -1
      ELSE (CHOOSE i \in hits : \A j \in hits : j <= i) - 1

\* os.path.splitext(p)[1] (posixpath: sep "/", no altsep, extsep ".")
SplitExt(p) ==
  LET sepIndex == RFind(p, "/")
      dotIndex == RFind(p, ".")
  IN  IF dotIndex > sepIndex
         /\ \E f \in (sepIndex + 1)..(dotIndex - 1) : p[f + 1] # "."
      THEN SubSeq(p, dotIndex + 1, Len(p))
      ELSE << >>

RECURSIVE Flatten(_)
Flatten(parts) ==
  IF parts = << >> THEN << >> ELSE Head(parts) \o Flatten(Tail(parts))

SeqToSet(s) == {s[i] : i \in 1..Len(s)}

(***************************************************************************)
(* Regular expressions of the command rules: a pattern is a sequence of    *)
(* items, an item a character class with a quantifier.                     *)
(***************************************************************************)
\* \s of a str pattern
Whitespace == {" ", "\t", "\n", "\r", "\f"}

Lit(s) == [i \in 1..Len(s) |-> [cls |-> "lit", ch |-> s[i], q |-> "1"]]
SpacePlus == << [cls |-> "space", ch |-> " ", q |-> "+"] >>
SpaceStar == << [cls |-> "space", ch |-> " ", q |-> "*"] >>
DotStar   == << [cls |-> "dot",   ch |-> " ", q |-> "*"] >>

\* does character c belong to the class of item it ("." excludes newline)
InClass(it, c) ==
  CASE it.cls = "lit"   -> c = it.ch
    [] it.cls = "space" -> c \in Whitespace
    [] it.cls = "dot"   -> c # "\n"

\* can items k.. of pattern re match s from position j (1-based) on
RECURSIVE MatchFrom(_, _, _, _)
MatchFrom(re, k, s, j) ==
  IF k > Len(re) THEN TRUE
  ELSE LET it   == re[k]
           here == j <= Len(s) /\ InClass(it, s[j])
       IN  CASE it.q = "1" -> here /\ MatchFrom(re, k + 1, s, j + 1)
             [] it.q = "+" -> here /\ (MatchFrom(re, k + 1, s, j + 1)
                                       \/ MatchFrom(re, k, s, j + 1))
             [] it.q = "*" -> MatchFrom(re, k + 1, s, j)
                              \/ (here /\ MatchFrom(re, k, s, j + 1))

\* re.search(pattern, s) is not None
re_search(re, s) == \E j \in 1..(Len(s) + 1) : MatchFrom(re, 1, s, j)

(***************************************************************************)
(* Static configuration of the hooks.                                      *)
(***************************************************************************)
dangerous_patterns ==
  << Lit(<<"r", "m">>) \o SpacePlus \o Lit(<<"-", "r", "f">>) \o SpacePlus \o Lit(<<"/">>),
     Lit(<<"c", "h", "m", "o", "d">>) \o SpacePlus \o Lit(<<"7", "7", "7">>),
     Lit(<<"s", "u", "d", "o">>) \o SpacePlus,
     Lit(<<"d", "d">>) \o SpacePlus \o Lit(<<"i", "f", "=">>),
     Lit(<<"m", "k", "f", "s", ".">>),
     Lit(<<"n", "p", "m">>) \o SpacePlus \o Lit(<<"p", "u", "b", "l", "i", "s", "h">>),
     Lit(<<"g", "i", "t">>) \o SpacePlus \o Lit(<<"p", "u", "s", "h">>) \o DotStar
        \o Lit(<<"-", "-", "f", "o", "r", "c", "e">>),
     Lit(<<"m", "v">>) \o SpacePlus \o DotStar \o SpacePlus \o Lit(<<"/">>),
     Lit(<<">">>) \o SpaceStar \o Lit(<<"/", "d", "e", "v", "/">>) >>

sensitive_patterns ==
  << <<".", "e", "n", "v">>,
     <<".", "e", "n", "v", ".", "l", "o", "c", "a", "l">>,
     <<".", "e", "n", "v", ".", "p", "r", "o", "d", "u", "c", "t", "i", "o", "n">>,
     <<".", "e", "n", "v", ".", "d", "e", "v", "e", "l", "o", "p", "m", "e", "n", "t">>,
     <<".", "k", "e", "y">>,
     <<".", "p", "e", "m">>,
     <<".", "p", "1", "2">>,
     <<".", "p", "f", "x">>,
     <<"c", "r", "e", "d", "e", "n", "t", "i", "a", "l", "s", ".", "j", "s", "o", "n">>,
     <<"s", "e", "c", "r", "e", "t", "s", ".", "y", "a", "m", "l">>,
     <<"s", "e", "c", "r", "e", "t", "s", ".", "j", "s", "o", "n">>,
     <<".", "g", "i", "t", "/", "c", "o", "n", "f", "i", "g">>,
     <<"i", "d", "_", "r", "s", "a">>,
     <<"i", "d", "_", "e", "d", "2", "5", "5", "1", "9">>,
     <<"i", "d", "_", "d", "s", "a">>,
     <<".", "a", "w", "s", "/", "c", "r", "e", "d", "e", "n", "t", "i", "a", "l", "s">>,
     <<".", "s", "s", "h", "/", "c", "o", "n", "f", "i", "g">>,
     <<"p", "a", "s", "s", "w", "o", "r", "d">>,
     <<"s", "e", "c", "r", "e", "t">> >>

sensitive_dirs ==
  << <<".", "s", "s", "h", "/">>,
     <<".", "a", "w", "s", "/">>,
     <<".", "g", "n", "u", "p", "g", "/">>,
     <<"s", "e", "c", "r", "e", "t", "s", "/">>,
     <<"p", "r", "i", "v", "a", "t", "e", "/">> >>

test_extensions ==
  << <<".", "t", "s">>,
     <<".", "t", "s", "x">>,
     <<".", "j", "s">>,
     <<".", "j", "s", "x">>,
     <<".", "p", "y">> >>

\* the keys of the formatters mapping
formatters ==
  { <<".", "t", "s">>, <<".", "t", "s", "x">>, <<".", "j", "s">>,
    <<".", "j", "s", "x">>, <<".", "p", "y">> }

(***************************************************************************)
(* The inputs: command and path texts built from fragments.                *)
(***************************************************************************)
CmdFrags ==
  << <<"r", "m", " ", "-", "r", "f", " ", "/">>,
     <<"R", "M", " ", "-", "R", "F", " ", "/">>,
     <<"r", "m", "\t", "-", "r", "f", " ", " ", "/", "t", "m", "p">>,
     <<"l", "s", " ", "-", "l", "a">>,
     <<"s", "u", "d", "o">>,
     <<"s", "u", "d", "o", " ">>,
     <<"S", "u", "d", "o", " ">>,
     <<"c", "h", "m", "o", "d", " ", "7", "7", "7", " ", "f">>,
     <<"d", "d", " ", "i", "f", "=", "x">>,
     <<"m", "k", "f", "s", ".", "e", "x", "t", "4">>,
     <<"m", "k", "f", "s">>,
     <<"n", "p", "m", " ", "p", "u", "b", "l", "i", "s", "h">>,
     <<"g", "i", "t", " ", "p", "u", "s", "h">>,
     <<" ", "-", "-", "f", "o", "r", "c", "e">>,
     <<"\n">>,
     <<" ", "o", "r", "i", "g", "i", "n">>,
     <<"m", "v", " ", "a", " ", "b">>,
     <<" ", "/">>,
     <<">", "/", "d", "e", "v", "/", "s", "d", "a">>,
     <<">", " ", "/", "d", "e", "v", "/", "n", "u", "l", "l">> >>

PathFrags ==
  << <<"/", "h", "o", "m", "e", "/", "u", "/">>,
     <<".", "s", "s", "h", "/">>,
     <<".", "S", "S", "H", "/">>,
     <<"s", "e", "c", "r", "e", "t", "s", "/">>,
     <<"p", "r", "i", "v", "a", "t", "e", "/">>,
     <<"P", "R", "I", "V", "A", "T", "E", "/">>,
     <<".", "e", "n", "v">>,
     <<".", "E", "N", "V">>,
     <<"i", "d", "_", "r", "s", "a">>,
     <<"r", "e", "a", "d", "m", "e", ".", "m", "d">>,
     <<"a", "p", "p", ".", "p", "y">>,
     <<"m", "a", "i", "n", ".", "t", "s">>,
     <<"t", "e", "s", "t">>,
     <<"T", "e", "s", "t">>,
     <<".", "c", "l", "a", "u", "d", "e", "/">>,
     <<"k", "n", "o", "w", "n", "_", "h", "o", "s", "t", "s">>,
     <<".", "p", "y">>,
     <<"v", "i", "e", "w", ".", "J", "S", "X">>,
     <<"_", "_", "t", "e", "s", "t", "s", "_", "_", "/">>,
     <<"a", ".", "t", "s", "x">>,
     <<"b", ".", "j", "s">>,
     <<"c", ".", "j", "s", "x">> >>

TextsOf(frags) ==
  { Flatten(ps) : ps \in UNION { [1..n -> SeqToSet(frags)] : n \in 0..MaxParts } }

CmdTexts  == TextsOf(CmdFrags)
PathTexts == TextsOf(PathFrags)

(***************************************************************************)
(* The record on standard input.  shape tells how far json.load and the    *)
(* two .get calls get with it; key and text are the one entry of the       *)
(* tool_input mapping when there is one.                                   *)
(***************************************************************************)
Hooks == {"dangerous-command-blocker", "sensitive-file-guard",
          "auto-format", "test-on-change"}

Runners == {"auto-format", "test-on-change"}

BrokenShapes == {"invalid_json", "not_mapping", "tool_input_not_mapping"}
EmptyShapes  == {"no_tool_input", "no_key"}

Records ==
  { [shape |-> sh, key |-> "none", text |-> << >>] : sh \in BrokenShapes \cup EmptyShapes }
  \cup { [shape |-> "null", key |-> k, text |-> << >>] : k \in {"command", "file_path"} }
  \cup { [shape |-> "text", key |-> "command", text |-> t] : t \in CmdTexts }
  \cup { [shape |-> "text", key |-> "file_path", text |-> t] : t \in PathTexts }

\* results of subprocess.run: exit status 0, exit status # 0, FileNotFoundError,
\* TimeoutExpired, any other exception (PermissionError, ...)
Outcomes == {"success", "nonzero", "missing", "timeout", "other"}

Str(t)  == [t |-> "str",   v |-> t]
None    == [t |-> "none",  v |-> << >>]
Unset   == [t |-> "unset", v |-> << >>]
Raised  == [t |-> "raise", v |-> << >>]

\* not x, for x a str or None
Falsy(x) == x.t = "none" \/ x.v = << >>

VARIABLES
  hook,       \* which script runs
  stdin,      \* the record the host wrote
  exists,     \* what os.path.exists answers for the decoded path
  pc,         \* position in the script
  command,    \* the blocker's decoded command
  file_path,  \* the other hooks' decoded path
  result,     \* what the evaluation or the external command came to
  invoked,    \* external commands started so far
  stdout,     \* lines written to standard output
  stderr,     \* lines written to standard error
  code,       \* the status about to be passed to exit
  status      \* the process's exit status, -1 while it runs

vars == << hook, stdin, exists, pc, command, file_path, result, invoked,
           stdout, stderr, code, status >>

Init ==
  /\ hook \in Hooks
  /\ stdin \in Records
  /\ exists \in BOOLEAN
  /\ pc = "Start"
  /\ command = Unset
  /\ file_path = Unset
  /\ result = "none"
  /\ invoked = 0
  /\ stdout = << >>
  /\ stderr = << >>
  /\ code = -1
  /\ status = -1

(***************************************************************************)
(* Decoding: json.load(sys.stdin), then .get('tool_input', {}).get(k, '')  *)
(***************************************************************************)
KeyOf(h) == IF h = "dangerous-command-blocker" THEN "command" ELSE "file_path"

\* the value of data.get('tool_input', {}).get(k, ''), or Raised when
\* json.load or one of the .get calls raises
DecodeValue(rec, k) ==
  CASE rec.shape \in BrokenShapes -> Raised
    [] rec.shape \in EmptyShapes  -> Str(<< >>)
    [] rec.shape = "null" -> IF rec.key = k THEN None ELSE Str(<< >>)
    [] rec.shape = "text" -> IF rec.key = k THEN Str(rec.text) ELSE Str(<< >>)

\* an uncaught exception: the interpreter prints the traceback and exits 1
Uncaught ==
  /\ stderr' = Append(stderr, "Traceback (most recent call last)")
  /\ code' = 1
  /\ pc' = "Signalled"

Decode ==
  /\ pc = "Start"
  /\ LET v == DecodeValue(stdin, KeyOf(hook))
     IN  IF v = Raised
         THEN /\ Uncaught
              /\ UNCHANGED << command, file_path >>
         ELSE /\ pc' = "Decoded"
              /\ IF hook = "dangerous-command-blocker"
                 THEN command' = v /\ UNCHANGED file_path
                 ELSE file_path' = v /\ UNCHANGED command
              /\ UNCHANGED << stderr, code >>
  /\ UNCHANGED << hook, stdin, exists, result, invoked, stdout, status >>

(***************************************************************************)
(* dangerous-command-blocker: the loop over dangerous_patterns.            *)
(***************************************************************************)
\* the scan as it would be with re.IGNORECASE-like matching of the command
BlockerScanIgnoreCase(cmd) ==
  LET hits == {i \in 1..Len(dangerous_patterns) :
                 re_search(dangerous_patterns[i], Lower(cmd))}
  IN  IF hits = {} THEN 0 ELSE CHOOSE i \in hits : \A j \in hits : i <= j

\* index of the first pattern that re.search finds in cmd, 0 when none does
BlockerScan(cmd) ==
  LET hits == {i \in 1..Len(dangerous_patterns) : re_search(dangerous_patterns[i], cmd)}
  IN  IF hits = {} THEN 0 ELSE CHOOSE i \in hits : \A j \in hits : i <= j

ScanCommand ==
  /\ pc = "Decoded"
  /\ hook = "dangerous-command-blocker"
  /\ IF command.t = "none"
     THEN \* re.search(pattern, None) raises TypeError
          /\ Uncaught
          /\ UNCHANGED result
     ELSE /\ result' = (IF BlockerScan(command.v) # 0 THEN "blocked_pattern" ELSE "allow")
          /\ pc' = "Evaluated"
          /\ UNCHANGED << stderr, code >>
  /\ UNCHANGED << hook, stdin, exists, command, file_path, invoked, stdout, status >>

(***************************************************************************)
(* sensitive-file-guard: the loop over sensitive_patterns, then the loop   *)
(* over sensitive_dirs.                                                    *)
(***************************************************************************)
\* the scan as it would be without the loop over sensitive_dirs
GuardScanPatternsOnly(path) ==
  IF \E i \in 1..Len(sensitive_patterns) : Contains(Lower(path), sensitive_patterns[i])
  THEN "blocked_pattern"
  ELSE "allow"

GuardScan(path) ==
  IF \E i \in 1..Len(sensitive_patterns) : Contains(Lower(path), sensitive_patterns[i])
  THEN "blocked_pattern"
  ELSE IF \E i \in 1..Len(sensitive_dirs) : Contains(path, sensitive_dirs[i])
       THEN "blocked_dir"
       ELSE "allow"

ScanPath ==
  /\ pc = "Decoded"
  /\ hook = "sensitive-file-guard"
  /\ IF file_path.t = "none"
     THEN \* None.lower() raises AttributeError
          /\ Uncaught
          /\ UNCHANGED result
     ELSE /\ result' = GuardScan(file_path.v)
          /\ pc' = "Evaluated"
          /\ UNCHANGED << stderr, code >>
  /\ UNCHANGED << hook, stdin, exists, command, file_path, invoked, stdout, status >>

(***************************************************************************)
(* auto-format and test-on-change: the guards before subprocess.run.       *)
(***************************************************************************)
\* "skip": the early sys.exit(0); "noop": nothing to run; "run": subprocess.run
FormatGate(path, there) ==
  IF Falsy(path) \/ ~there THEN "skip"
  ELSE IF SplitExt(path.v) \in formatters THEN "run" ELSE "noop"

\* the guards as they would be with 'test' looked for in the raw path
TestGateCaseSensitive(path) ==
  IF Falsy(path) THEN "skip"
  ELSE IF SplitExt(path.v) \notin SeqToSet(test_extensions) THEN "noop"
  ELSE IF Contains(path.v, <<"t", "e", "s", "t">>)
          \/ Contains(path.v, <<"_", "_", "t", "e", "s", "t", "s", "_", "_">>)
       THEN "noop"
  ELSE IF Contains(path.v, <<".", "c", "l", "a", "u", "d", "e">>) THEN "noop"
  ELSE "run"

TestGate(path) ==
  IF Falsy(path) THEN "skip"
  ELSE IF SplitExt(path.v) \notin SeqToSet(test_extensions) THEN "noop"
  ELSE IF Contains(Lower(path.v), <<"t", "e", "s", "t">>)
          \/ Contains(path.v, <<"_", "_", "t", "e", "s", "t", "s", "_", "_">>)
       THEN "noop"
  ELSE IF Contains(path.v, <<".", "c", "l", "a", "u", "d", "e">>) THEN "noop"
  ELSE "run"

Gate(h, path, there) ==
  IF h = "auto-format" THEN FormatGate(path, there) ELSE TestGate(path)

\* the guards pass nothing on: the script exits 0 without a command
GateSkips ==
  /\ pc = "Decoded"
  /\ hook \in Runners
  /\ Gate(hook, file_path, exists) # "run"
  /\ pc' = (IF Gate(hook, file_path, exists) = "skip" THEN "Skipped" ELSE "Evaluated")
  /\ result' = "allow"
  /\ UNCHANGED << hook, stdin, exists, command, file_path, invoked, stdout, stderr,
                  code, status >>

\* subprocess.run starts the formatter or the test runner
StartCommand ==
  /\ pc = "Decoded"
  /\ hook \in Runners
  /\ Gate(hook, file_path, exists) = "run"
  /\ invoked' = invoked + 1
  /\ pc' = "Running"
  /\ UNCHANGED << hook, stdin, exists, command, file_path, result, stdout, stderr,
                  code, status >>

\* the script as it would be if it ran the command again after a failure
AfterCommandRetry(o) == IF o \in {"nonzero", "timeout"} THEN "Decoded" ELSE "Evaluated"

\* where the script goes when subprocess.run returns or raises
AfterCommand(o) == "Evaluated"

\* subprocess.run returns or raises, within the timeout
CommandReturns ==
  /\ pc = "Running"
  /\ \E o \in Outcomes :
       /\ result' = o
       /\ pc' = AfterCommand(o)
  /\ UNCHANGED << hook, stdin, exists, command, file_path, invoked, stdout, stderr,
                  code, status >>

(***************************************************************************)
(* What each script prints and the status it hands to sys.exit.            *)
(***************************************************************************)
BlockerReport(r) ==
  IF r = "blocked_pattern"
  THEN [out |-> << >>,
        err |-> << "BLOCKED: Dangerous command pattern detected: {pattern}",
                   "Command attempted: {command}",
                   "If this is intentional, run manually outside Claude Code." >>,
        code |-> 2]
  ELSE [out |-> << >>, err |-> << >>, code |-> 0]

GuardReport(r) ==
  CASE r = "blocked_pattern" ->
         [out |-> << >>,
          err |-> << "BLOCKED: Sensitive file access detected: {file_path}",
                     "Pattern matched: {pattern}",
                     "To edit sensitive files, use your editor directly." >>,
          code |-> 2]
    [] r = "blocked_dir" ->
         [out |-> << >>,
          err |-> << "BLOCKED: File in sensitive directory: {file_path}" >>,
          code |-> 2]
    [] OTHER -> [out |-> << >>, err |-> << >>, code |-> 0]

FormatReport(r) ==
  CASE r = "success" -> [out |-> << "Formatted {file_path}" >>, err |-> << >>, code |-> 0]
    [] r = "missing" -> [out |-> << >>, err |-> << "Formatter not available" >>, code |-> 1]
    [] r = "timeout" -> [out |-> << >>, err |-> << "Formatter timeout" >>, code |-> 1]
    [] r = "nonzero" -> [out |-> << >>, err |-> << >>, code |-> 1]
    [] r = "other"   -> [out |-> << >>,
                         err |-> << "Traceback (most recent call last)" >>, code |-> 1]
    [] OTHER -> [out |-> << >>, err |-> << >>, code |-> 0]

\* the report as it would be if a missing test runner were handled like the
\* formatter's
TestReportMissingFails(r) ==
  CASE r = "success" -> [out |-> << "Tests passing for {file_path}" >>, err |-> << >>,
                         code |-> 0]
    [] r = "nonzero" -> [out |-> << >>,
                         err |-> << "Tests failed after editing {file_path}" >>, code |-> 1]
    [] r = "missing" -> [out |-> << >>, err |-> << "Test runner not available" >>,
                         code |-> 1]
    [] r = "timeout" -> [out |-> << >>, err |-> << "Test timeout for {file_path}" >>,
                         code |-> 0]
    [] r = "other"   -> [out |-> << >>, err |-> << "Could not run tests: {e}" >>,
                         code |-> 0]
    [] OTHER -> [out |-> << >>, err |-> << >>, code |-> 0]

\* the report as it would be if failing tests exited with the deny status
TestReportFailureDenies(r) ==
  CASE r = "success" -> [out |-> << "Tests passing for {file_path}" >>, err |-> << >>,
                         code |-> 0]
    [] r = "nonzero" -> [out |-> << >>,
                         err |-> << "Tests failed after editing {file_path}" >>, code |-> 2]
    [] r = "missing" -> [out |-> << >>, err |-> << >>, code |-> 0]
    [] r = "timeout" -> [out |-> << >>, err |-> << "Test timeout for {file_path}" >>,
                         code |-> 0]
    [] r = "other"   -> [out |-> << >>, err |-> << "Could not run tests: {e}" >>,
                         code |-> 0]
    [] OTHER -> [out |-> << >>, err |-> << >>, code |-> 0]

TestReport(r) ==
  CASE r = "success" -> [out |-> << "Tests passing for {file_path}" >>, err |-> << >>,
                         code |-> 0]
    [] r = "nonzero" -> [out |-> << >>,
                         err |-> << "Tests failed after editing {file_path}" >>, code |-> 1]
    [] r = "missing" -> [out |-> << >>, err |-> << >>, code |-> 0]
    [] r = "timeout" -> [out |-> << >>, err |-> << "Test timeout for {file_path}" >>,
                         code |-> 0]
    [] r = "other"   -> [out |-> << >>, err |-> << "Could not run tests: {e}" >>,
                         code |-> 0]
    [] OTHER -> [out |-> << >>, err |-> << >>, code |-> 0]

ReportOf(h, r) ==
  CASE h = "dangerous-command-blocker" -> BlockerReport(r)
    [] h = "sensitive-file-guard"      -> GuardReport(r)
    [] h = "auto-format"               -> FormatReport(r)
    [] h = "test-on-change"            -> TestReport(r)

\* the print calls of the branch taken, up to its sys.exit
Report ==
  /\ pc \in {"Skipped", "Evaluated"}
  /\ LET rep == ReportOf(hook, result)
     IN  /\ stdout' = stdout \o rep.out
         /\ stderr' = stderr \o rep.err
         /\ code' = rep.code
  /\ pc' = "Signalled"
  /\ UNCHANGED << hook, stdin, exists, command, file_path, result, invoked, status >>

\* sys.exit(code), or the interpreter's exit after the traceback
Exit ==
  /\ pc = "Signalled"
  /\ status' = code
  /\ pc' = "Terminated"
  /\ UNCHANGED << hook, stdin, exists, command, file_path, result, invoked, stdout,
                  stderr, code >>

Next ==
  \/ Decode
  \/ ScanCommand
  \/ ScanPath
  \/ GateSkips
  \/ StartCommand
  \/ CommandReturns
  \/ Report
  \/ Exit

Spec == Init /\ [][Next]_vars

\* the interpreter keeps executing the script: no step waits on anything but
\* subprocess.run, which its timeout bounds
FairSpec == Spec /\ WF_vars(Next)

TypeOK ==
  /\ pc \in {"Start", "Decoded", "Skipped", "Running", "Evaluated", "Signalled",
             "Terminated"}
  /\ status \in {-1, 0, 1, 2}
  /\ invoked \in Nat

(***************************************************************************)
(* Properties.                                                             *)
(***************************************************************************)
Done == pc = "Terminated"

\* some rule of the command rule list is found in cmd by an unanchored,
\* case-sensitive search
SomeRuleMatches(cmd) ==
  \E i \in 1..Len(dangerous_patterns) : re_search(dangerous_patterns[i], cmd)

\* C1: for every command text the command blocker exits with status 2 if and
\* only if some rule of dangerous_patterns matches the command, and with
\* status 0 when none does (the empty command included).
C1_BlockerExitsTwoIffRuleMatches ==
  (Done /\ hook = "dangerous-command-blocker" /\ command.t = "str")
    => status = (IF SomeRuleMatches(command.v) THEN 2 ELSE 0)

\* C1 witness: rm -rf / was scanned and denied.
C1_Witness ==
  /\ Done
  /\ hook = "dangerous-command-blocker"
  /\ command = Str(<<"r", "m", " ", "-", "r", "f", " ", "/">>)
  /\ status = 2

\* the lower-cased path contains a tier-(a) literal or the raw path contains a
\* tier-(b) directory marker
PathIsSensitive(path) ==
  \/ \E i \in 1..Len(sensitive_patterns) : Contains(Lower(path), sensitive_patterns[i])
  \/ \E i \in 1..Len(sensitive_dirs) : Contains(path, sensitive_dirs[i])

\* C2: for every file path the sensitive-file guard exits with status 2 if and
\* only if the lower-cased path contains a tier-(a) literal or the raw path
\* contains a tier-(b) directory marker, and with status 0 otherwise (the
\* empty path included).
C2_GuardExitsTwoIffSensitive ==
  (Done /\ hook = "sensitive-file-guard" /\ file_path.t = "str")
    => status = (IF PathIsSensitive(file_path.v) THEN 2 ELSE 0)

\* C2 witness: a file under .ssh/ whose name matches no tier-(a) literal was
\* denied by the directory tier.
C2_Witness ==
  /\ Done
  /\ hook = "sensitive-file-guard"
  /\ file_path = Str(<<".", "s", "s", "h", "/", "k", "n", "o", "w", "n", "_",
                       "h", "o", "s", "t", "s">>)
  /\ result = "blocked_dir"
  /\ status = 2

\* C3: every hook, given a record that is malformed or lacks the expected
\* fields, exits with status 0 and writes no diagnostic.
C3_MalformedRecordAllowed ==
  (Done /\ stdin.shape \in BrokenShapes \cup EmptyShapes)
    => (status = 0 /\ stderr = << >>)

\* C4: in both runner hooks a timed-out external command ends the hook with a
\* note on standard error and status 1.
C4_TimeoutExitsOne ==
  (Done /\ hook \in Runners /\ result = "timeout")
    => (status = 1 /\ stderr # << >>)

\* C5: every exit with a non-zero status has been preceded by a reason on
\* standard error.
C5_NonAllowExplained ==
  (Done /\ status \in {1, 2}) => stderr # << >>

\* C6: the guard decides alike for any two paths that differ only in letter
\* case.
C6_CaseVariantsDecidedAlike ==
  (Done /\ hook = "sensitive-file-guard" /\ file_path.t = "str")
    => \A q \in PathTexts :
         Lower(q) = Lower(file_path.v) => ((GuardScan(q) = "allow") <=> (status = 0))

\* C7: when the executable is not found, the formatting hook writes its
\* 'not available' note to standard error and exits 1, and the testing hook
\* exits 0 having written nothing to either stream.
C7_MissingToolAsymmetry ==
  (Done /\ result = "missing")
    => IF hook = "auto-format"
       THEN status = 1 /\ stderr = << "Formatter not available" >>
       ELSE status = 0 /\ stdout = << >> /\ stderr = << >>

\* C7 witness: the test runner was started, was not found, and the hook exited.
C7_Witness ==
  /\ Done
  /\ hook = "test-on-change"
  /\ invoked = 1
  /\ result = "missing"

\* the path passes the gate the claim describes
GateOpen(h, path) ==
  /\ path.t = "str"
  /\ path.v # << >>
  /\ SplitExt(path.v) \in formatters
  /\ h = "test-on-change" =>
       /\ ~Contains(Lower(path.v), <<"t", "e", "s", "t">>)
       /\ ~Contains(path.v, <<".", "c", "l", "a", "u", "d", "e">>)

\* C8: a runner hook starts its external command only for a non-empty path
\* with a mapped extension that, in the testing hook, contains neither 'test'
\* in any letter case nor '.claude'; for every other decoded path it starts
\* no command and exits with status 0.
C8_ExternalCommandGate ==
  hook \in Runners =>
    /\ invoked > 0 => GateOpen(hook, file_path)
    /\ (Done /\ file_path # Unset /\ ~GateOpen(hook, file_path))
         => (invoked = 0 /\ status = 0)

\* C8 witness: the testing hook was given Testapp.py, whose extension is
\* mapped, and exited 0 without running anything.
C8_Witness ==
  /\ Done
  /\ hook = "test-on-change"
  /\ file_path = Str(<<"T", "e", "s", "t", "a", "p", "p", ".", "p", "y">>)
  /\ invoked = 0
  /\ status = 0

\* C9: the formatting and testing hooks never exit with status 2, whatever the
\* external command did, and failing tests end the testing hook with a report
\* on standard error and status 1.
C9_RunnersNeverDeny ==
  hook \in Runners =>
    /\ status # 2
    /\ (Done /\ hook = "test-on-change" /\ result = "nonzero")
         => (status = 1 /\ stderr # << >>)

\* C9 witness: the tests ran, failed, and the testing hook exited 1.
C9_Witness ==
  /\ Done
  /\ hook = "test-on-change"
  /\ result = "nonzero"
  /\ status = 1

\* the steps of the lifecycle: Start -> Decoded -> (Skipped | Running and then
\* Evaluated | Evaluated) -> Signalled -> Terminated; an uncaught exception
\* while decoding or scanning goes straight to Signalled
LifecycleSteps ==
  { <<"Start", "Decoded">>, <<"Decoded", "Skipped">>, <<"Decoded", "Evaluated">>,
    <<"Decoded", "Running">>, <<"Running", "Evaluated">>, <<"Skipped", "Signalled">>,
    <<"Evaluated", "Signalled">>, <<"Signalled", "Terminated">>,
    <<"Start", "Signalled">>, <<"Decoded", "Signalled">> }

====
